---------------------------- MODULE Spec2Model ----------------------------
(***************************************************************************)
(* Model of MemoryLeakGateway (src/src/memory-leak.gateway.ts): the        *)
(* per-connection sessions, the timers and listeners created for them,     *)
(* the global broadcast handlers and the message history.                  *)
(*                                                                         *)
(* Node runs every handler and every timer callback to completion on one   *)
(* thread, so each handler and each timer tick is one atomic action.       *)
(***************************************************************************)
EXTENDS Integers, Sequences, FiniteSets, TLC

(***************************************************************************)
(* Bounds of the model.                                                    *)
(***************************************************************************)
\* Closures and timer objects the runtime may allocate in one behaviour.
MaxIds == 7
\* The history thresholds, scaled down so that a behaviour can cross them:
\* HISTORY_LIMIT stands for the 10000 of gateway.ts:85, HISTORY_KEEP for the
\* 5000 of gateway.ts:87 and H_MAX for the cap of 1000 that the spec and
\* INTERVIEW_CHALLENGES.md:375 ask for.  Their order is kept:
\* H_MAX < HISTORY_KEEP < HISTORY_LIMIT.
HISTORY_LIMIT == 4
HISTORY_KEEP == 2
H_MAX == 1
\* Appends to the history in one behaviour (enough to cross HISTORY_LIMIT).
MaxAppends == HISTORY_LIMIT + 2
\* Appends to the history in one behaviour of Spec, where every handler runs.
MaxSpecAppends == 2
\* user_updates emissions counted after a disconnect (the counter saturates).
MaxLate == 2
\* The largest iteration count a heavy_computation request carries.
MaxIterations == 2
\* Concurrent safeIncrement requests.
MaxCalls == 3
\* Chunks of highWaterMark bytes in the streamed file (the 1 MB file the
\* service creates has 16).
MaxChunks == 3
\* Messages a client has sent that are waiting for their handler.
MaxInbox == 2
\* Restarts of the application on the same database.
MaxBoots == 1
\* Concurrent requests of each increment endpoint while the application starts.
MaxBootCalls == 1

(***************************************************************************)
(* Program constants.                                                      *)
(***************************************************************************)
\* data.iterations || 100
DEFAULT_ITERATIONS == 100
\* new Array(50) in generateFakeUpdates
UPDATE_COUNT == 50
\* Buffer.alloc(100 * 1024)
LARGE_DATA_SIZE == 102400
\* bytes per MB: the / 1024 / 1024 of the statistics
MEGABYTE == 1048576
\* new Array(10000) in performHeavyOperation
TEMP_ITEMS == 10000
\* connectionLimit: 10 of the pool
CONNECTION_LIMIT == 10

Clients == {"c1", "c2"}
\* client.handshake.auth?.userId: a supplied user id, or none
AuthUserIds == {"u1"}
NoAuth == "<none>"
NoSession == [absent |-> TRUE]

VARIABLES
    userSessions,         \* Map<string, UserSession>: client id -> session or NoSession
    sessionKeys,          \* insertion order of the keys of userSessions
    globalEventHandlers,  \* Function[]: closures, each capturing one client
    messageHistory,       \* Array<{timestamp, message, userId}>
    globalTimer,          \* the constructor's interval: TRUE while scheduled
    activeTimers,         \* the runtime's scheduled intervals (setInterval not yet cleared)
    socketListeners,      \* per socket, the listeners registered with client.on
    nextId,               \* identity of the next closure / Timeout object
    clock,                \* Date.now(), as a logical clock
    conn,                 \* per client: "new", "open" (connected), "closed" (disconnected)
    lateUpdates,          \* per client: user_updates emitted to it since its disconnect
    last,                 \* what the most recent handler or callback did and returned
    process,              \* the Node process: "running", "closed" (after app.close()), "crashed"
    counter,              \* the value of the row id = 1 of table counter, as committed
    rowLock,              \* the safeIncrement call holding the lock of that row, or NoCall
    calls,                \* per safeIncrement call: where it is and what it holds
    raceCalls,            \* per incrementRaceCondition call: where it is and what it read
    streams,              \* per backpressure-stream request: the read stream and the response
    inbox,                \* per client: the messages it has sent that no handler has run for yet
    counterTable,         \* table counter of the database: whether it exists, and the ids of its rows
    initCalls,            \* per service: where the initCounter call of its onModuleInit is
    boots                 \* how many times the application has been started again

\* The state of the gateway, and the state of the counter demo.
gatewayVars == <<userSessions, sessionKeys, globalEventHandlers, messageHistory,
                 globalTimer, activeTimers, socketListeners, nextId, clock, conn,
                 lateUpdates, last, process>>
dbVars == <<counter, rowLock, calls>>

\* The state of the HTTP services: the counter demo and the file streaming demo.
initVars == <<counterTable, initCalls, boots>>
serviceVars == <<dbVars, raceCalls, streams, initVars>>

vars == <<gatewayVars, serviceVars, inbox>>

(***************************************************************************)
(* Helpers.                                                                *)
(***************************************************************************)
Range(s) == {s[i] : i \in 1..Len(s)}

Min(a, b) == IF a < b THEN a ELSE b

\* Array.prototype.slice(0, k): the first k elements (all of them if fewer).
SliceFirst(s, k) ==
    IF Len(s) <= k THEN s ELSE SubSeq(s, 1, k)

\* Array.prototype.slice(-k): the last k elements (all of them if fewer).
SliceLast(s, k) ==
    IF Len(s) <= k THEN s ELSE SubSeq(s, Len(s) - k + 1, Len(s))

\* Map.prototype.has
HasSession(c) == userSessions[c] # NoSession

\* Map.prototype.set: an existing key keeps its place in the iteration order.
MapSetKeys(c) ==
    IF \E i \in 1..Len(sessionKeys) : sessionKeys[i] = c
    THEN sessionKeys
    ELSE Append(sessionKeys, c)

\* clearInterval(h): the runtime forgets the interval; unknown handles are ignored.
ClearInterval(timers, h) == {t \in timers : t.id # h}

\* The concurrent safeIncrement requests, and the state of one not yet started.
Calls == 1..MaxCalls
NoCall == 0
IdleCall == [pc |-> "idle", held |-> FALSE, current |-> 0, pending |-> 0, result |-> 0,
             released |-> 0, error |-> "", thrown |-> ""]

\* The concurrent incrementRaceCondition requests: one not yet started.
IdleRace == [pc |-> "idle", current |-> 0, result |-> 0]

\* The concurrent GET backpressure-stream requests: one not yet received.
Requests == {"r1", "r2"}
NoStream == [phase |-> "none", chunks |-> 0, read |-> 0, flowing |-> FALSE,
             written |-> <<>>, needDrain |-> FALSE, drainHandlers |-> 0, ends |-> 0,
             statusCode |-> 200, statusSent |-> 0, pauses |-> 0]

NoOutput == [op |-> "none", client |-> "", found |-> FALSE, cleared |-> <<>>,
             emits |-> <<>>, ret |-> [kind |-> "void"]]

\* The two services whose onModuleInit calls initCounter.
Services == {"AppService", "InternalService"}

\* Table counter before any CREATE TABLE, and once initCounter has completed.
NoTable == [exists |-> FALSE, ids |-> {}]
Initialised == [exists |-> TRUE, ids |-> {1}]

\* The row id = 1 of table counter exists: `counter` is its value.
RowExists == counterTable.exists /\ 1 \in counterTable.ids

\* The process after construction, the database apart.
InitProcess ==
    /\ userSessions = [c \in Clients |-> NoSession]
    /\ sessionKeys = <<>>
    /\ globalEventHandlers = <<>>
    /\ messageHistory = <<>>
    /\ globalTimer = TRUE
    /\ activeTimers = {}
    /\ socketListeners = [c \in Clients |-> <<>>]
    /\ nextId = 1
    /\ clock = 0
    /\ conn = [c \in Clients |-> "new"]
    /\ lateUpdates = [c \in Clients |-> 0]
    /\ last = NoOutput
    /\ process = "running"
    /\ counter = 0
    /\ rowLock = NoCall
    /\ calls = [i \in Calls |-> IdleCall]
    /\ raceCalls = [i \in Calls |-> IdleRace]
    /\ streams = [r \in Requests |-> NoStream]
    /\ inbox = [c \in Clients |-> <<>>]
    /\ boots = 0

\* The application in operation: the initCounter calls of both services have
\* completed.
Init ==
    /\ InitProcess
    /\ counterTable = Initialised
    /\ initCalls = [s \in Services |-> "done"]

\* The application just started on an empty database: onModuleInit of both
\* services has called initCounter, and no statement of it has run yet.
InitBoot ==
    /\ InitProcess
    /\ counterTable = NoTable
    /\ initCalls = [s \in Services |-> "started"]

\* The observable outcome of one handler or callback: `found` is whether its
\* userSessions.get(client.id) returned a session (FALSE when it does no
\* lookup), `cleared` the handles it passed to clearInterval, `emits` its
\* client.emit calls in order, `ret` what it returned.
Output(op, c, found, cleared, emits, ret) ==
    [op |-> op, client |-> c, found |-> found, cleared |-> cleared,
     emits |-> emits, ret |-> ret]

\* client.emit(event, payload)
Emit(c, event, payload) == [to |-> c, event |-> event, payload |-> payload]

(***************************************************************************)
(* handleConnection(client)                                                *)
(***************************************************************************)
\* client.handshake.auth?.userId || `anonymous_${Date.now()}`
SessionUserId(auth) ==
    IF auth # NoAuth THEN auth ELSE "anonymous_" \o ToString(clock)

\* handleConnection, were the ping interval one shared timer (the one the
\* first connection created) pushed into every session.
handleConnectionSharedTimer(c, auth) ==
    /\ process = "running"
    /\ conn[c] # "open"
    /\ nextId + 2 <= MaxIds
    /\ LET heartbeatCallback == nextId
           connectionTimer == 2
           globalHandler == nextId + 2
           listener == [event |-> "pong", callback |-> heartbeatCallback]
           session == [userId |-> SessionUserId(auth),
                       socketId |-> c,
                       timers |-> <<connectionTimer>>,
                       intervals |-> <<>>,
                       listeners |-> <<listener>>]
       IN  /\ userSessions' = [userSessions EXCEPT ![c] = session]
           /\ sessionKeys' = MapSetKeys(c)
           /\ socketListeners' = [socketListeners EXCEPT ![c] = Append(@, listener)]
           /\ activeTimers' = activeTimers \cup
                  {[id |-> connectionTimer, kind |-> "connection",
                    client |-> c, userId |-> session.userId]}
           /\ globalEventHandlers' =
                  Append(globalEventHandlers, [id |-> globalHandler, client |-> c])
    /\ nextId' = nextId + 3
    /\ conn' = [conn EXCEPT ![c] = "open"]
    /\ lateUpdates' = [lateUpdates EXCEPT ![c] = 0]
    /\ last' = Output("connect", c, FALSE, <<>>, <<>>, [kind |-> "void"])
    /\ UNCHANGED <<messageHistory, globalTimer, process, serviceVars, clock>>

\* The transport reports a connection for an identity that is not connected
\* at that moment (conn[c] # "open"); every other handler is a public method
\* that may be called for any client at any time.
handleConnection(c, auth) ==
    /\ process = "running"
    /\ conn[c] # "open"
    /\ nextId + 2 <= MaxIds
    /\ LET heartbeatCallback == nextId
           connectionTimer == nextId + 1
           globalHandler == nextId + 2
           listener == [event |-> "pong", callback |-> heartbeatCallback]
           session == [userId |-> SessionUserId(auth),
                       socketId |-> c,
                       timers |-> <<connectionTimer>>,
                       intervals |-> <<>>,
                       listeners |-> <<listener>>]
       IN  /\ userSessions' = [userSessions EXCEPT ![c] = session]
           /\ sessionKeys' = MapSetKeys(c)
           /\ socketListeners' = [socketListeners EXCEPT ![c] = Append(@, listener)]
           /\ activeTimers' = activeTimers \cup
                  {[id |-> connectionTimer, kind |-> "connection",
                    client |-> c, userId |-> session.userId]}
           /\ globalEventHandlers' =
                  Append(globalEventHandlers, [id |-> globalHandler, client |-> c])
    /\ nextId' = nextId + 3
    /\ conn' = [conn EXCEPT ![c] = "open"]
    /\ lateUpdates' = [lateUpdates EXCEPT ![c] = 0]
    /\ last' = Output("connect", c, FALSE, <<>>, <<>>, [kind |-> "void"])
    /\ UNCHANGED <<messageHistory, globalTimer, process, serviceVars, clock>>

(***************************************************************************)
(* handleDisconnect(client)                                                *)
(***************************************************************************)
\* DisconnectCleared, were the handle taken from session.intervals.
DisconnectClearedFromIntervals(session) ==
    IF session # NoSession /\ Len(session.intervals) > 0
    THEN <<session.intervals[1]>>
    ELSE <<>>

\* The handles handleDisconnect passes to clearInterval: session.timers[0] only.
DisconnectCleared(session) ==
    IF session # NoSession /\ Len(session.timers) > 0
    THEN <<session.timers[1]>>
    ELSE <<>>

\* clearInterval over a list of handles.
RECURSIVE ClearAll(_, _)
ClearAll(timers, handles) ==
    IF handles = <<>>
    THEN timers
    ELSE ClearAll(ClearInterval(timers, Head(handles)), Tail(handles))

\* handleDisconnect, were it to cancel every ping interval of the gateway
\* instead of the one recorded in the session of the client.
handleDisconnectClearsEveryPing(c) ==
    LET session == userSessions[c]
        cleared == DisconnectCleared(session)
    IN  /\ process # "crashed"
        /\ activeTimers' = IF cleared = <<>>
                           THEN activeTimers
                           ELSE {t \in activeTimers : t.kind # "connection"}
        /\ conn' = [conn EXCEPT ![c] = IF @ = "new" THEN "new" ELSE "closed"]
        /\ lateUpdates' = [lateUpdates EXCEPT ![c] = 0]
        /\ last' = Output("disconnect", c, session # NoSession, cleared, <<>>,
                          [kind |-> "void"])
        /\ UNCHANGED <<userSessions, sessionKeys, globalEventHandlers,
                       messageHistory, globalTimer, process, serviceVars, socketListeners, nextId, clock>>

handleDisconnect(c) ==
    LET session == userSessions[c]
        cleared == DisconnectCleared(session)
    IN  /\ process # "crashed"
        /\ activeTimers' = ClearAll(activeTimers, cleared)
        /\ conn' = [conn EXCEPT ![c] = IF @ = "new" THEN "new" ELSE "closed"]
        /\ lateUpdates' = [lateUpdates EXCEPT ![c] = 0]
        /\ last' = Output("disconnect", c, session # NoSession, cleared, <<>>,
                          [kind |-> "void"])
        /\ UNCHANGED <<userSessions, sessionKeys, globalEventHandlers,
                       messageHistory, globalTimer, process, serviceVars, socketListeners, nextId, clock>>

(***************************************************************************)
(* handleSubscribeUpdates(data, client)                                    *)
(***************************************************************************)
handleSubscribeUpdates(c, userId) ==
    LET session == userSessions[c]
    IN  /\ process = "running"
        /\ IF session = NoSession
           THEN /\ last' = Output("subscribe_updates", c, FALSE, <<>>, <<>>,
                                  [kind |-> "undefined"])
                /\ UNCHANGED <<userSessions, sessionKeys, globalEventHandlers,
                               messageHistory, globalTimer, process, serviceVars, activeTimers,
                               socketListeners, nextId, clock, conn, lateUpdates>>
           ELSE /\ nextId <= MaxIds
                /\ activeTimers' = activeTimers \cup
                       {[id |-> nextId, kind |-> "update", client |-> c,
                         userId |-> userId]}
                /\ nextId' = nextId + 1
                /\ last' = Output("subscribe_updates", c, TRUE, <<>>, <<>>,
                                  [kind |-> "subscribed", userId |-> userId])
                /\ UNCHANGED <<userSessions, sessionKeys, globalEventHandlers,
                               messageHistory, globalTimer, process, serviceVars, socketListeners,
                               clock, conn, lateUpdates>>

(***************************************************************************)
(* The per-connection timer of handleConnection (every 1000 ms).           *)
(***************************************************************************)
\* PingAppend, were the length tested before the push instead of after it.
PingAppendCheckFirst(history, entry) ==
    IF Len(history) > HISTORY_LIMIT
    THEN SliceLast(Append(history, entry), HISTORY_KEEP)
    ELSE Append(history, entry)

\* messageHistory.push(entry), then the truncation of gateway.ts:85-88.
PingAppend(history, entry) ==
    LET pushed == Append(history, entry)
    IN  IF Len(pushed) > HISTORY_LIMIT
        THEN SliceLast(pushed, HISTORY_KEEP)
        ELSE pushed

connectionTimerTick(t) ==
    /\ process # "crashed"
    /\ t \in activeTimers
    /\ t.kind = "connection"
    /\ clock < MaxAppends
    /\ messageHistory' = PingAppend(messageHistory,
           [timestamp |-> clock,
            message |-> "Ping from " \o t.client,
            userId |-> t.userId])
    /\ clock' = clock + 1
    /\ last' = Output("connectionTimer", t.client, FALSE, <<>>, <<>>, [kind |-> "void"])
    /\ UNCHANGED <<userSessions, sessionKeys, globalEventHandlers, globalTimer, process, serviceVars,
                   activeTimers, socketListeners, nextId, conn, lateUpdates>>

(***************************************************************************)
(* The interval of handleSubscribeUpdates (every 2000 ms).                 *)
(***************************************************************************)
\* Array.from(this.userSessions.values()).find(s => s.userId === userId)
FindSessionByUser(userId) ==
    LET hits == {i \in 1..Len(sessionKeys) :
                    userSessions[sessionKeys[i]].userId = userId}
    IN  IF hits = {}
        THEN NoSession
        ELSE userSessions[sessionKeys[CHOOSE i \in hits : \A j \in hits : i <= j]]

generateFakeUpdates(userId) ==
    LET session == FindSessionByUser(userId)
    IN  [userId |-> userId,
         updates |-> [k \in 1..UPDATE_COUNT |->
                         [id |-> k - 1,
                          message |-> "Update " \o ToString(k - 1) \o " for " \o userId,
                          sessionData |-> session,
                          timestamp |-> clock]]]

\* The callback of handleSubscribeUpdates scheduled with setTimeout: its
\* timer is gone once it has fired.
updateTimeoutTick(t) ==
    /\ process # "crashed"
    /\ t \in activeTimers
    /\ t.kind = "update"
    /\ activeTimers' = activeTimers \ {t}
    /\ lateUpdates' = [lateUpdates EXCEPT ![t.client] =
                          IF conn[t.client] = "closed" THEN Min(@ + 1, MaxLate) ELSE @]
    /\ last' = Output("updateInterval", t.client, FALSE, <<>>,
                      <<Emit(t.client, "user_updates", generateFakeUpdates(t.userId))>>,
                      [kind |-> "void"])
    /\ UNCHANGED <<userSessions, sessionKeys, globalEventHandlers, messageHistory,
                   globalTimer, process, serviceVars, socketListeners, nextId, clock, conn>>

updateIntervalTick(t) ==
    /\ process # "crashed"
    /\ t \in activeTimers
    /\ t.kind = "update"
    /\ lateUpdates' = [lateUpdates EXCEPT ![t.client] =
                          IF conn[t.client] = "closed" THEN Min(@ + 1, MaxLate) ELSE @]
    /\ last' = Output("updateInterval", t.client, FALSE, <<>>,
                      <<Emit(t.client, "user_updates", generateFakeUpdates(t.userId))>>,
                      [kind |-> "void"])
    /\ UNCHANGED <<userSessions, sessionKeys, globalEventHandlers, messageHistory,
                   globalTimer, process, serviceVars, activeTimers, socketListeners, nextId, clock, conn>>

(***************************************************************************)
(* handleHeavyComputation(data, client)                                    *)
(***************************************************************************)
\* A heavy_computation payload: {iterations: n}, or one without the field.
NoIterations == [preferences |-> "none"]
HeavyInputs == {[iterations |-> n] : n \in 0..MaxIterations} \cup {NoIterations}

\* data.iterations || 100
IterationCount(data) ==
    IF "iterations" \in DOMAIN data /\ data.iterations # 0
    THEN data.iterations
    ELSE DEFAULT_ITERATIONS

\* Buffer.concat([largeData, Buffer.from(`iteration_${i}`)]).length
ProcessedSize(i) == LARGE_DATA_SIZE + Len("iteration_" \o ToString(i))

\* ComputationEmits with the iterations numbered from 1.
ComputationEmitsFromOne(c, count) ==
    [k \in 1..count |->
        Emit(c, "computation_result",
             [iteration |-> k, size |-> ProcessedSize(k), timestamp |-> clock])]

\* results.forEach(fn => fn()): one computation_result per closure, in order.
ComputationEmits(c, count) ==
    [k \in 1..count |->
        Emit(c, "computation_result",
             [iteration |-> k - 1, size |-> ProcessedSize(k - 1), timestamp |-> clock])]

\* handleHeavyComputation, were its history entry pushed after an await:
\* the call emits and returns its promise, the push comes in a later step.
handleHeavyComputationDeferred(c, data) ==
    /\ process = "running"
    /\ "iterations" \in DOMAIN data
    /\ last' = Output("heavy_computation", c, FALSE, <<>>,
                      ComputationEmits(c, IterationCount(data)),
                      [kind |-> "pending"])
    /\ UNCHANGED <<userSessions, sessionKeys, globalEventHandlers, messageHistory,
                   globalTimer, process, serviceVars, activeTimers, socketListeners,
                   nextId, clock, conn, lateUpdates>>

handleHeavyComputation(c, data) ==
    LET count == IterationCount(data)
        emits == ComputationEmits(c, count)
    IN  /\ process = "running"
        /\ IF "iterations" \in DOMAIN data
           THEN /\ clock < MaxAppends
                /\ messageHistory' = Append(messageHistory,
                       [timestamp |-> clock,
                        message |-> "Heavy computation completed: " \o ToString(count)
                                       \o " operations",
                        userId |-> ToString(data.iterations)])
                /\ clock' = clock + 1
                /\ last' = Output("heavy_computation", c, FALSE, <<>>, emits,
                                  [kind |-> "processed", processed |-> count])
                /\ UNCHANGED <<userSessions, sessionKeys, globalEventHandlers,
                               globalTimer, process, serviceVars, activeTimers, socketListeners, nextId,
                               conn, lateUpdates>>
           ELSE \* data.iterations.toString() throws: the async handler rejects
                /\ last' = Output("heavy_computation", c, FALSE, <<>>, emits,
                                  [kind |-> "exception"])
                /\ UNCHANGED <<userSessions, sessionKeys, globalEventHandlers,
                               messageHistory, globalTimer, process, serviceVars, activeTimers,
                               socketListeners, nextId, clock, conn, lateUpdates>>

(***************************************************************************)
(* handleGetMemoryStats(client)                                            *)
(***************************************************************************)
\* Math.round(x / d) for d > 0: floor(x / d + 1/2)
RoundDiv(x, d) == (2 * x + d) \div (2 * d)

\* Math.round(bytes / 1024 / 1024)
ToMB(bytes) == RoundDiv(bytes, MEGABYTE)

\* process.memoryUsage(): what the runtime may report
MemorySamples ==
    {[rss |-> r, heapUsed |-> h, heapTotal |-> r, external |-> 0] :
        r \in {3 * MEGABYTE}, h \in {MEGABYTE \div 2, 2 * MEGABYTE}}

\* this.userSessions.size
SessionCount == Cardinality({c \in Clients : HasSession(c)})

MemoryStats(memUsage) ==
    [memoryUsage |-> [rss |-> ToMB(memUsage.rss),
                      heapUsed |-> ToMB(memUsage.heapUsed),
                      heapTotal |-> ToMB(memUsage.heapTotal),
                      external |-> ToMB(memUsage.external)],
     activeSessions |-> SessionCount,
     messageHistoryLength |-> Len(messageHistory),
     globalHandlers |-> Len(globalEventHandlers)]

\* handleGetMemoryStats, also recording the request in the message history.
handleGetMemoryStatsLogging(c, memUsage) ==
    /\ process = "running"
    /\ messageHistory' = Append(messageHistory,
           [timestamp |-> clock, message |-> "Stats for " \o c, userId |-> c])
    /\ last' = Output("get_memory_stats", c, FALSE, <<>>,
                      <<Emit(c, "memory_stats", MemoryStats(memUsage))>>,
                      [kind |-> "stats", stats |-> MemoryStats(memUsage)])
    /\ UNCHANGED <<userSessions, sessionKeys, globalEventHandlers,
                   globalTimer, process, serviceVars, activeTimers, socketListeners,
                   nextId, clock, conn, lateUpdates>>

handleGetMemoryStats(c, memUsage) ==
    /\ process = "running"
    /\ last' = Output("get_memory_stats", c, FALSE, <<>>,
                      <<Emit(c, "memory_stats", MemoryStats(memUsage))>>,
                      [kind |-> "stats", stats |-> MemoryStats(memUsage)])
    /\ UNCHANGED <<userSessions, sessionKeys, globalEventHandlers, messageHistory,
                   globalTimer, process, serviceVars, activeTimers, socketListeners, nextId, clock, conn,
                   lateUpdates>>

(***************************************************************************)
(* handleForceGC(client)                                                   *)
(***************************************************************************)
\* GcResult with the difference taken the wrong way round.
GcResultSwapped(gcExposed, before, after) ==
    IF gcExposed
    THEN [before |-> ToMB(before.heapUsed),
          after |-> ToMB(after.heapUsed),
          freed |-> ToMB(after.heapUsed - before.heapUsed)]
    ELSE [error |-> "GC not exposed. Start with --expose-gc flag"]

GcResult(gcExposed, before, after) ==
    IF gcExposed
    THEN [before |-> ToMB(before.heapUsed),
          after |-> ToMB(after.heapUsed),
          freed |-> ToMB(before.heapUsed - after.heapUsed)]
    ELSE [error |-> "GC not exposed. Start with --expose-gc flag"]

handleForceGC(c, gcExposed, before, after) ==
    /\ process = "running"
    /\ last' = Output("force_gc", c, FALSE, <<>>,
                      <<Emit(c, "gc_result", GcResult(gcExposed, before, after))>>,
                      [kind |-> "undefined"])
    /\ UNCHANGED <<userSessions, sessionKeys, globalEventHandlers, messageHistory,
                   globalTimer, process, serviceVars, activeTimers, socketListeners, nextId, clock, conn,
                   lateUpdates>>

(***************************************************************************)
(* The constructor's interval (every 5000 ms): performHeavyOperation()     *)
(***************************************************************************)
\* The tick, were it to keep a summary of its work in the message history.
performHeavyOperationLogging(fails) ==
    /\ process # "crashed"
    /\ globalTimer
    /\ ~fails
    /\ messageHistory' = Append(messageHistory,
           [timestamp |-> clock, message |-> "Processed " \o ToString(TEMP_ITEMS),
            userId |-> "system"])
    /\ last' = Output("performHeavyOperation", "", FALSE, <<>>, <<>>,
                      [kind |-> "void", items |-> TEMP_ITEMS])
    /\ UNCHANGED <<userSessions, sessionKeys, globalEventHandlers,
                   globalTimer, process, serviceVars,
                   activeTimers, socketListeners, nextId, clock, conn,
                   lateUpdates>>

\* The callback has no try/catch.  A tick that throws (an allocation of its
\* temporary data fails) is an uncaught exception in a timer callback: the
\* process ends, and with it every timer and everything it held in memory.
performHeavyOperation(fails) ==
    /\ process # "crashed"
    /\ globalTimer
    /\ IF fails
       THEN /\ process' = "crashed"
            /\ globalTimer' = FALSE
            /\ activeTimers' = {}
            /\ userSessions' = [c \in Clients |-> NoSession]
            /\ sessionKeys' = <<>>
            /\ globalEventHandlers' = <<>>
            /\ messageHistory' = <<>>
            /\ socketListeners' = [c \in Clients |-> <<>>]
            /\ lateUpdates' = [c \in Clients |-> 0]
            /\ last' = Output("performHeavyOperation", "", FALSE, <<>>, <<>>,
                              [kind |-> "exception"])
            /\ UNCHANGED <<nextId, clock, conn, serviceVars>>
       ELSE /\ last' = Output("performHeavyOperation", "", FALSE, <<>>, <<>>,
                              [kind |-> "void", items |-> TEMP_ITEMS])
            /\ UNCHANGED <<userSessions, sessionKeys, globalEventHandlers,
                           messageHistory, globalTimer, process, serviceVars,
                           activeTimers, socketListeners, nextId, clock, conn,
                           lateUpdates>>

(***************************************************************************)
(* app.close(): the gateway implements OnGatewayConnection and             *)
(* OnGatewayDisconnect only, so no hook of it runs at shutdown.  The       *)
(* transport stops accepting messages; disconnect notifications and timer  *)
(* callbacks still run.                                                    *)
(***************************************************************************)
appClose ==
    /\ process = "running"
    /\ process' = "closed"
    /\ last' = Output("close", "", FALSE, <<>>, <<>>, [kind |-> "void"])
    /\ UNCHANGED <<userSessions, sessionKeys, globalEventHandlers, messageHistory,
                   globalTimer, serviceVars, activeTimers, socketListeners, nextId,
                   clock, conn, lateUpdates>>

Next ==
    \/ \E c \in Clients, auth \in AuthUserIds \cup {NoAuth} : handleConnection(c, auth) /\ UNCHANGED inbox
    \/ \E c \in Clients : handleDisconnect(c) /\ UNCHANGED inbox
    \/ \E c \in Clients, u \in AuthUserIds : handleSubscribeUpdates(c, u) /\ UNCHANGED inbox
    \/ \E c \in Clients, data \in HeavyInputs :
           clock < MaxSpecAppends /\ handleHeavyComputation(c, data) /\ UNCHANGED inbox
    \/ \E c \in Clients, m \in MemorySamples : handleGetMemoryStats(c, m) /\ UNCHANGED inbox
    \/ \E c \in Clients, g \in BOOLEAN, b \in MemorySamples, a \in MemorySamples :
           handleForceGC(c, g, b, a) /\ UNCHANGED inbox
    \/ \E t \in activeTimers : clock < MaxSpecAppends /\ connectionTimerTick(t) /\ UNCHANGED inbox
    \/ \E t \in activeTimers : updateIntervalTick(t) /\ UNCHANGED inbox
    \/ performHeavyOperation(FALSE) /\ UNCHANGED inbox

Spec == Init /\ [][Next]_vars

(***************************************************************************)
(* The request handlers at every point of the life of the connections:     *)
(* connects, disconnects and subscriptions, with the heavy_computation,    *)
(* get_memory_stats and force_gc requests among them.                      *)
(***************************************************************************)
NextDiag ==
    \/ \E c \in Clients : handleConnection(c, "u1") /\ UNCHANGED inbox
    \/ \E c \in Clients : handleDisconnect(c) /\ UNCHANGED inbox
    \/ \E c \in Clients : handleSubscribeUpdates(c, "u1") /\ UNCHANGED inbox
    \/ \E c \in Clients, data \in HeavyInputs :
           clock < MaxSpecAppends /\ handleHeavyComputation(c, data) /\ UNCHANGED inbox
    \/ \E c \in Clients, m \in MemorySamples : handleGetMemoryStats(c, m) /\ UNCHANGED inbox
    \/ \E c \in Clients, g \in BOOLEAN, b \in MemorySamples, a \in MemorySamples :
           handleForceGC(c, g, b, a) /\ UNCHANGED inbox

SpecDiag == Init /\ [][NextDiag]_vars

(***************************************************************************)
(* The life of the process: connections and their timers, the maintenance  *)
(* tick, which may throw, and the shutdown of the application.             *)
(***************************************************************************)
NextProc ==
    \/ \E c \in Clients : handleConnection(c, "u1") /\ UNCHANGED inbox
    \/ \E c \in Clients : handleDisconnect(c) /\ UNCHANGED inbox
    \/ \E c \in Clients : handleSubscribeUpdates(c, "u1") /\ UNCHANGED inbox
    \/ \E t \in activeTimers : clock < MaxSpecAppends /\ connectionTimerTick(t) /\ UNCHANGED inbox
    \/ \E t \in activeTimers : updateIntervalTick(t) /\ UNCHANGED inbox
    \/ \E fails \in BOOLEAN : performHeavyOperation(fails) /\ UNCHANGED inbox
    \/ appClose /\ UNCHANGED inbox

SpecProc == Init /\ [][NextProc]_vars

(***************************************************************************)
(* Subscriptions in a process that keeps running: connects, disconnects,   *)
(* subscribe_updates requests and the ticks of their intervals.  Node      *)
(* fires a scheduled interval again and again (every 2000 ms here) for as  *)
(* long as it is scheduled: that is the fairness of each timer's tick.     *)
(***************************************************************************)
NextLive ==
    \/ \E c \in Clients : handleConnection(c, "u1") /\ UNCHANGED inbox
    \/ \E c \in Clients : handleDisconnect(c) /\ UNCHANGED inbox
    \/ \E c \in Clients : handleSubscribeUpdates(c, "u1") /\ UNCHANGED inbox
    \/ \E t \in activeTimers : updateIntervalTick(t) /\ UNCHANGED inbox

TimerFairness ==
    \A id \in 1..MaxIds :
        WF_vars(\E t \in activeTimers :
                    t.id = id /\ updateIntervalTick(t) /\ UNCHANGED inbox)

SpecLive == Init /\ [][NextLive]_vars /\ TimerFairness

(***************************************************************************)
(* The messages of a connection on their way to the handlers.  The         *)
(* transport hands the events of one socket (its messages, then its        *)
(* disconnect) to the gateway in the order the client sent them, one       *)
(* handler call per event; the events of different sockets come in any     *)
(* order.  No handler of the gateway contains an await, so a handler call  *)
(* is one step.                                                            *)
(***************************************************************************)
Messages == {"subscribe_updates", "heavy_computation", "disconnect"}

\* clientSocket.emit(message, ...) or clientSocket.disconnect(): nothing
\* follows a disconnect on the same connection.
clientSend(c, m) ==
    /\ process = "running"
    /\ conn[c] = "open"
    /\ Len(inbox[c]) < MaxInbox
    /\ \A k \in 1..Len(inbox[c]) : inbox[c][k] # "disconnect"
    /\ inbox' = [inbox EXCEPT ![c] = Append(@, m)]
    /\ UNCHANGED <<gatewayVars, serviceVars>>

\* The oldest waiting event of connection c is m, and its handler call takes it.
Oldest(c, m) ==
    /\ inbox[c] # <<>>
    /\ Head(inbox[c]) = m
    /\ inbox' = [inbox EXCEPT ![c] = Tail(@)]

onSubscribeUpdates(c) ==
    /\ Oldest(c, "subscribe_updates")
    /\ handleSubscribeUpdates(c, "u1")

onHeavyComputation(c) ==
    /\ Oldest(c, "heavy_computation")
    /\ handleHeavyComputation(c, [iterations |-> 1])

onDisconnect(c) ==
    /\ Oldest(c, "disconnect")
    /\ handleDisconnect(c)

NextOrder ==
    \/ \E c \in Clients : handleConnection(c, "u1") /\ UNCHANGED inbox
    \/ \E c \in Clients, m \in Messages : clientSend(c, m)
    \/ \E c \in Clients : onSubscribeUpdates(c)
    \/ \E c \in Clients : onHeavyComputation(c)
    \/ \E c \in Clients : onDisconnect(c)

SpecOrder == Init /\ [][NextOrder]_vars

(***************************************************************************)
(* The message history on its own: connections, their ping timers and      *)
(* heavy_computation requests, with enough appends to cross HISTORY_LIMIT. *)
(***************************************************************************)
NextLog ==
    \/ \E c \in Clients : handleConnection(c, "u1") /\ UNCHANGED inbox
    \/ \E t \in activeTimers : connectionTimerTick(t) /\ UNCHANGED inbox
    \/ \E c \in Clients : handleHeavyComputation(c, [iterations |-> 1]) /\ UNCHANGED inbox

SpecLog == Init /\ [][NextLog]_vars

(***************************************************************************)
(* InternalService.safeIncrement (src/src/internal.service.ts:36-56).      *)
(* Every await is a point where other requests run, so each awaited call   *)
(* is one action of the request.  The database is MySQL/InnoDB: SELECT ... *)
(* FOR UPDATE waits for, then takes, the exclusive lock of the row, and    *)
(* holds it until the transaction commits; an UPDATE inside a transaction  *)
(* becomes the committed value at the commit.  Any awaited call of the try  *)
(* block may reject; a call that rejects has had no effect, and the        *)
(* rollback on the connection, which is still usable, succeeds.  The       *)
(* counter row exists here: initCounter has completed.                     *)
(***************************************************************************)
\* One field of a call's record replaced.
At(i, f, v) == [calls EXCEPT ![i][f] = v]

\* const conn = await this.pool.getConnection()
safeGetConnection(i) ==
    /\ calls[i].pc = "idle"
    /\ Cardinality({j \in Calls : calls[j].held}) < CONNECTION_LIMIT
    /\ calls' = [calls EXCEPT ![i].pc = "connected", ![i].held = TRUE]
    /\ UNCHANGED <<counter, rowLock, gatewayVars, raceCalls, streams, inbox, initVars>>

\* await conn.beginTransaction()
safeBeginTransaction(i) ==
    /\ calls[i].pc = "connected"
    /\ calls' = At(i, "pc", "inTransaction")
    /\ UNCHANGED <<counter, rowLock, gatewayVars, raceCalls, streams, inbox, initVars>>

\* The same read without FOR UPDATE: it neither waits for nor takes the lock.
safeSelectNoLock(i) ==
    /\ calls[i].pc = "inTransaction"
    /\ calls' = [calls EXCEPT ![i].pc = "read", ![i].current = counter]
    /\ UNCHANGED <<counter, rowLock, gatewayVars, raceCalls, streams, inbox, initVars>>

\* await conn.query('SELECT value FROM counter WHERE id = 1 FOR UPDATE');
\* const current = rows[0].value
safeSelectForUpdate(i) ==
    /\ calls[i].pc = "inTransaction"
    /\ IF RowExists
       THEN /\ rowLock = NoCall
            /\ rowLock' = i
            /\ calls' = [calls EXCEPT ![i].pc = "read", ![i].current = counter]
       ELSE \* no table: the query rejects; no row: rows[0].value throws
            /\ calls' = [calls EXCEPT ![i].pc = "caught", ![i].error = "select"]
            /\ UNCHANGED rowLock
    /\ UNCHANGED <<counter, gatewayVars, raceCalls, streams, inbox, initVars>>

\* await new Promise((resolve) => setTimeout(resolve, 10))
safeDelay(i) ==
    /\ calls[i].pc = "read"
    /\ calls' = At(i, "pc", "delayed")
    /\ UNCHANGED <<counter, rowLock, gatewayVars, raceCalls, streams, inbox, initVars>>

\* const next = current + 1;
\* await conn.query('UPDATE counter SET value = ? WHERE id = 1', [next])
safeUpdate(i) ==
    /\ calls[i].pc = "delayed"
    /\ calls' = [calls EXCEPT ![i].pc = "updated",
                              ![i].pending = calls[i].current + 1]
    /\ UNCHANGED <<counter, rowLock, gatewayVars, raceCalls, streams, inbox, initVars>>

\* await conn.commit()
safeCommit(i) ==
    /\ calls[i].pc = "updated"
    /\ counter' = calls[i].pending
    /\ rowLock' = IF rowLock = i THEN NoCall ELSE rowLock
    /\ calls' = At(i, "pc", "committed")
    /\ UNCHANGED <<gatewayVars, raceCalls, streams, inbox, initVars>>

\* return { endpoint: 'safeIncrement', value: next }, and finally conn.release()
safeReturn(i) ==
    /\ calls[i].pc = "committed"
    /\ calls' = [calls EXCEPT ![i].pc = "done", ![i].held = FALSE,
                              ![i].released = @ + 1,
                              ![i].result = calls[i].current + 1]
    /\ UNCHANGED <<counter, rowLock, gatewayVars, raceCalls, streams, inbox, initVars>>

\* The awaited call the request is about to make, by where the request is.
AwaitedCall(pc) ==
    CASE pc = "connected" -> "beginTransaction"
      [] pc = "inTransaction" -> "select"
      [] pc = "delayed" -> "update"
      [] pc = "updated" -> "commit"
      [] OTHER -> ""

\* An awaited call of the try block rejects (the statement fails, the wait
\* for the row lock times out, ...): it has had no effect, and control goes
\* to catch (err).
safeReject(i) ==
    /\ AwaitedCall(calls[i].pc) # ""
    /\ calls' = [calls EXCEPT ![i].pc = "caught",
                              ![i].error = AwaitedCall(calls[i].pc)]
    /\ UNCHANGED <<counter, rowLock, gatewayVars, raceCalls, streams, inbox, initVars>>

\* catch (err) with no rollback: the transaction stays open on the connection.
safeRollbackSkipped(i) ==
    /\ calls[i].pc = "caught"
    /\ calls' = [calls EXCEPT ![i].pc = "rolledBack"]
    /\ UNCHANGED <<counter, rowLock, gatewayVars, raceCalls, streams, inbox, initVars>>

\* await conn.rollback(): the transaction ends, its uncommitted UPDATE is
\* discarded and its lock of the row, if it had it, is released.
safeRollback(i) ==
    /\ calls[i].pc = "caught"
    /\ rowLock' = IF rowLock = i THEN NoCall ELSE rowLock
    /\ calls' = [calls EXCEPT ![i].pc = "rolledBack", ![i].pending = 0]
    /\ UNCHANGED <<counter, gatewayVars, raceCalls, streams, inbox, initVars>>

\* throw err, and finally conn.release()
safeThrow(i) ==
    /\ calls[i].pc = "rolledBack"
    /\ calls' = [calls EXCEPT ![i].pc = "failed", ![i].held = FALSE,
                              ![i].released = @ + 1,
                              ![i].thrown = calls[i].error]
    /\ UNCHANGED <<counter, rowLock, gatewayVars, raceCalls, streams, inbox, initVars>>

safeIncrement(i) ==
    \/ safeGetConnection(i)
    \/ safeBeginTransaction(i)
    \/ safeSelectForUpdate(i)
    \/ safeDelay(i)
    \/ safeUpdate(i)
    \/ safeCommit(i)
    \/ safeReturn(i)
    \/ safeReject(i)
    \/ safeRollback(i)
    \/ safeThrow(i)

NextDb == \E i \in Calls : safeIncrement(i)

SpecDb == Init /\ [][NextDb]_vars

(***************************************************************************)
(* AppService.incrementRaceCondition (src/src/app.service.ts:35-52).       *)
(* Each pool.query is one autocommitted statement, and every await is a    *)
(* point where other requests run.  The SELECT is a plain read: it takes   *)
(* no lock and waits for none.  The UPDATE writes the value computed from  *)
(* that read; like every write of the row it waits while a transaction     *)
(* holds the lock of the row.                                              *)
(***************************************************************************)
\* const [rows] = await this.pool.query('SELECT value FROM counter WHERE id = 1');
\* const current = rows[0].value
raceSelect(i) ==
    /\ raceCalls[i].pc = "idle"
    /\ raceCalls' = IF RowExists
                    THEN [raceCalls EXCEPT ![i].pc = "read", ![i].current = counter]
                    ELSE \* no table: the query rejects; no row: rows[0].value
                         \* throws; the promise of the call rejects
                         [raceCalls EXCEPT ![i].pc = "failed"]
    /\ UNCHANGED <<gatewayVars, dbVars, streams, inbox, initVars>>

\* await new Promise((resolve) => setTimeout(resolve, 10))
raceDelay(i) ==
    /\ raceCalls[i].pc = "read"
    /\ raceCalls' = [raceCalls EXCEPT ![i].pc = "delayed"]
    /\ UNCHANGED <<gatewayVars, dbVars, streams, inbox, initVars>>

\* The same statement as UPDATE counter SET value = value + 1.
raceUpdateInPlace(i) ==
    /\ raceCalls[i].pc = "delayed"
    /\ rowLock = NoCall
    /\ counter' = counter + 1
    /\ raceCalls' = [raceCalls EXCEPT ![i].pc = "updated"]
    /\ UNCHANGED <<gatewayVars, rowLock, calls, streams, inbox, initVars>>

\* const next = current + 1;
\* await this.pool.query('UPDATE counter SET value = ? WHERE id = 1', [next])
raceUpdate(i) ==
    /\ raceCalls[i].pc = "delayed"
    /\ rowLock = NoCall
    /\ counter' = raceCalls[i].current + 1
    /\ raceCalls' = [raceCalls EXCEPT ![i].pc = "updated"]
    /\ UNCHANGED <<gatewayVars, rowLock, calls, streams, inbox, initVars>>

\* return next
raceReturn(i) ==
    /\ raceCalls[i].pc = "updated"
    /\ raceCalls' = [raceCalls EXCEPT ![i].pc = "done",
                                      ![i].result = raceCalls[i].current + 1]
    /\ UNCHANGED <<gatewayVars, dbVars, streams, inbox, initVars>>

incrementRaceCondition(i) ==
    \/ raceSelect(i)
    \/ raceDelay(i)
    \/ raceUpdate(i)
    \/ raceReturn(i)

NextRace == \E i \in Calls : incrementRaceCondition(i)

SpecRace == Init /\ [][NextRace]_vars

(***************************************************************************)
(* initCounter of AppService (src/src/app.service.ts:25-32) and of         *)
(* InternalService (src/src/internal.service.ts:24-31): the same two       *)
(* awaited statements, each on the pool of its service.  onModuleInit      *)
(* calls initCounter without awaiting it, so the application goes on to    *)
(* listen, and serves requests, while the statements of both calls are     *)
(* still to run, in any interleaving.  The database is reachable and each  *)
(* statement succeeds.                                                     *)
(***************************************************************************)
\* await this.pool.query(`CREATE TABLE IF NOT EXISTS counter (id INT PRIMARY KEY, value INT)`)
initCreateTable(s) ==
    /\ initCalls[s] = "started"
    /\ counterTable' = IF counterTable.exists
                       THEN counterTable
                       ELSE [exists |-> TRUE, ids |-> {}]
    /\ initCalls' = [initCalls EXCEPT ![s] = "created"]
    /\ UNCHANGED <<gatewayVars, dbVars, raceCalls, streams, inbox, boots>>

\* The same statement as REPLACE INTO counter (id, value) VALUES (1, 0).
initReplaceRow(s) ==
    /\ initCalls[s] = "created"
    /\ RowExists => rowLock = NoCall
    /\ counterTable' = [counterTable EXCEPT !.ids = @ \cup {1}]
    /\ counter' = 0
    /\ initCalls' = [initCalls EXCEPT ![s] = "done"]
    /\ UNCHANGED <<gatewayVars, rowLock, calls, raceCalls, streams, inbox, boots>>

\* await this.pool.query(`INSERT IGNORE INTO counter (id, value) VALUES (1, 0)`):
\* id is the primary key, so the row is inserted when no row has id 1 and
\* the statement is ignored when one has; on an existing row it waits while
\* a transaction holds the lock of the row.
initInsertRow(s) ==
    /\ initCalls[s] = "created"
    /\ RowExists => rowLock = NoCall
    /\ counterTable' = [counterTable EXCEPT !.ids = @ \cup {1}]
    /\ counter' = IF RowExists THEN counter ELSE 0
    /\ initCalls' = [initCalls EXCEPT ![s] = "done"]
    /\ UNCHANGED <<gatewayVars, rowLock, calls, raceCalls, streams, inbox, boots>>

initCounter(s) ==
    \/ initCreateTable(s)
    \/ initInsertRow(s)

\* The application is stopped and started again on the same database: the
\* connections of the old process are closed, which rolls back their open
\* transactions and drops their requests, and onModuleInit of both services
\* calls initCounter again (app.service.ts:10-23, internal.service.ts:11-22).
restart ==
    /\ boots < MaxBoots
    /\ boots' = boots + 1
    /\ initCalls' = [s \in Services |-> "started"]
    /\ calls' = [i \in Calls |-> IdleCall]
    /\ raceCalls' = [i \in Calls |-> IdleRace]
    /\ rowLock' = NoCall
    /\ UNCHANGED <<gatewayVars, counter, counterTable, streams, inbox>>

\* The requests served while the application starts.
BootCalls == 1..MaxBootCalls

NextBoot ==
    \/ \E s \in Services : initCounter(s)
    \/ \E i \in BootCalls : incrementRaceCondition(i)
    \/ \E i \in BootCalls : safeIncrement(i)
    \/ restart

SpecBoot == InitBoot /\ [][NextBoot]_vars

(***************************************************************************)
(* InternalService.streamBackpressure (src/src/internal.service.ts:61-91). *)
(* The handler creates the read stream and registers three listeners;      *)
(* each event of the stream, and each 'drain' of the response, is one      *)
(* callback run to completion.  Node's streams: a read stream with a       *)
(* 'data' listener flows, and emits 'data' per chunk in file order, then   *)
(* 'end', only while it flows; pause() stops both until resume(); 'error'  *)
(* destroys the stream, after which it emits nothing.  The response: the   *)
(* first write sends the header with the statusCode of that moment;        *)
(* write() returns false when its buffer is full, and 'drain' follows once *)
(* the buffer has been flushed.                                            *)
(***************************************************************************)
\* The status line on the wire once the header has been sent.
Sent(st) == IF st.statusSent = 0 THEN st.statusCode ELSE st.statusSent

\* fs.createReadStream(filePath, {highWaterMark}); res.setHeader(...);
\* readStream.on('data' | 'end' | 'error', ...).  The file has n chunks.
streamBackpressure(r, n) ==
    /\ streams[r].phase = "none"
    /\ streams' = [streams EXCEPT ![r] =
           [NoStream EXCEPT !.phase = "open", !.chunks = n, !.flowing = TRUE]]
    /\ UNCHANGED <<gatewayVars, dbVars, raceCalls, inbox, initVars>>

\* The 'data' listener without readStream.pause().
streamOnDataNoPause(r, canContinue) ==
    LET st == streams[r]
    IN  /\ st.phase = "open"
        /\ st.flowing
        /\ st.read < st.chunks
        /\ streams' = [streams EXCEPT ![r] =
               [st EXCEPT !.read = @ + 1,
                          !.written = Append(@, st.read + 1),
                          !.statusSent = Sent(st),
                          !.needDrain = ~canContinue,
                          !.drainHandlers = IF canContinue THEN @ ELSE @ + 1]]
        /\ UNCHANGED <<gatewayVars, dbVars, raceCalls, inbox, initVars>>

\* readStream.on('data', chunk => { const canContinue = res.write(chunk);
\*   if (!canContinue) { readStream.pause(); res.once('drain', ...) } })
streamOnData(r, canContinue) ==
    LET st == streams[r]
    IN  /\ st.phase = "open"
        /\ st.flowing
        /\ st.read < st.chunks
        /\ streams' = [streams EXCEPT ![r] =
               [st EXCEPT !.read = @ + 1,
                          !.written = Append(@, st.read + 1),
                          !.statusSent = Sent(st),
                          !.flowing = canContinue,
                          !.pauses = IF canContinue THEN @ ELSE @ + 1,
                          !.needDrain = ~canContinue,
                          !.drainHandlers = IF canContinue THEN @ ELSE @ + 1]]
        /\ UNCHANGED <<gatewayVars, dbVars, raceCalls, inbox, initVars>>

\* The response emits 'drain': the listeners registered with once run and
\* are removed; each calls readStream.resume().
streamOnDrain(r) ==
    LET st == streams[r]
    IN  /\ st.needDrain
        /\ streams' = [streams EXCEPT ![r] =
               [st EXCEPT !.needDrain = FALSE,
                          !.drainHandlers = 0,
                          !.flowing = IF st.drainHandlers > 0 /\ st.phase = "open"
                                      THEN TRUE ELSE @]]
        /\ UNCHANGED <<gatewayVars, dbVars, raceCalls, inbox, initVars>>

\* readStream.on('end', () => { res.end() })
streamOnEnd(r) ==
    LET st == streams[r]
    IN  /\ st.phase = "open"
        /\ st.flowing
        /\ st.read = st.chunks
        /\ streams' = [streams EXCEPT ![r] =
               [st EXCEPT !.phase = "ended",
                          !.flowing = FALSE,
                          !.ends = @ + 1,
                          !.statusSent = Sent(st)]]
        /\ UNCHANGED <<gatewayVars, dbVars, raceCalls, inbox, initVars>>

\* readStream.on('error', err => { res.status(500).end() }): opening the
\* file or any read of it can fail, flowing or paused.
streamOnError(r) ==
    LET st == streams[r]
    IN  /\ st.phase = "open"
        /\ streams' = [streams EXCEPT ![r] =
               [st EXCEPT !.phase = "errored",
                          !.flowing = FALSE,
                          !.ends = @ + 1,
                          !.statusCode = 500,
                          !.statusSent = IF st.statusSent = 0 THEN 500 ELSE @]]
        /\ UNCHANGED <<gatewayVars, dbVars, raceCalls, inbox, initVars>>

NextStream ==
    \/ \E r \in Requests, n \in 0..MaxChunks : streamBackpressure(r, n)
    \/ \E r \in Requests, canContinue \in BOOLEAN : streamOnData(r, canContinue)
    \/ \E r \in Requests : streamOnDrain(r)
    \/ \E r \in Requests : streamOnEnd(r)
    \/ \E r \in Requests : streamOnError(r)

\* The read stream keeps delivering the events it has (its reads complete),
\* and a response whose buffer is full is eventually flushed: the client
\* keeps reading.
StreamFairness ==
    \A r \in Requests :
        /\ WF_vars(\E canContinue \in BOOLEAN : streamOnData(r, canContinue))
        /\ WF_vars(streamOnDrain(r))
        /\ WF_vars(streamOnEnd(r))

SpecStream == Init /\ [][NextStream]_vars /\ StreamFairness

(***************************************************************************)
(* Vocabulary of the properties.                                           *)
(***************************************************************************)
\* handleDisconnect(c) has completed and c has not connected again.
Disconnected(c) == conn[c] = "closed"

\* The intervals still scheduled that were created for connection c.
ActiveTimersOf(c) == {t \in activeTimers : t.client = c}

\* The broadcast registrations whose closure captures connection c.
HandlersOf(c) == {i \in 1..Len(globalEventHandlers) : globalEventHandlers[i].client = c}

\* The handles recorded in a session: timers, intervals and listener callbacks.
RecordedTimers(session) == Range(session.timers) \cup Range(session.intervals)

\* A step that appended to the message history: only appends advance the clock.
AppendStep == clock' = clock + 1

(***************************************************************************)
(* C1: once the disconnect of a connection has completed, every timer and  *)
(* every listener created for that connection has been cancelled: no       *)
(* interval of it is still scheduled and no pong listener is still         *)
(* registered on its socket.                                               *)
(***************************************************************************)
C1_AllHandlesCancelledAfterDisconnect ==
    \A c \in Clients :
        Disconnected(c) => /\ ActiveTimersOf(c) = {}
                           /\ socketListeners[c] = <<>>

(***************************************************************************)
(* C2: once the disconnect of a connection has completed, the session      *)
(* registry has no entry for that connection (lookup is NotFound).         *)
(***************************************************************************)
C2_NoSessionAfterDisconnect ==
    \A c \in Clients : Disconnected(c) => ~HasSession(c)

(***************************************************************************)
(* C3: after the disconnect of a connection, globalEventHandlers holds no  *)
(* registration owned by it; and in every state each registration belongs  *)
(* to a connection whose session is registered.                            *)
(***************************************************************************)
C3_NoDanglingBroadcastRegistration ==
    /\ \A c \in Clients : Disconnected(c) => HandlersOf(c) = {}
    /\ \A i \in 1..Len(globalEventHandlers) : HasSession(globalEventHandlers[i].client)

(***************************************************************************)
(* C4: every scheduled connection-scoped interval and every registered     *)
(* socket listener is recorded in the handle lists of the session of the   *)
(* connection it was created for.                                          *)
(***************************************************************************)
C4_EveryResourceRecorded ==
    /\ \A t \in activeTimers :
           /\ HasSession(t.client)
           /\ t.id \in RecordedTimers(userSessions[t.client])
    /\ \A c \in Clients : \A i \in 1..Len(socketListeners[c]) :
           /\ HasSession(c)
           /\ socketListeners[c][i] \in Range(userSessions[c].listeners)

(***************************************************************************)
(* C5: after the disconnect of a connection has completed, at most one     *)
(* user_updates event (a tick already in flight) is emitted to it.         *)
(***************************************************************************)
C5_NoUpdatesAfterDisconnect ==
    \A c \in Clients : lateUpdates[c] <= 1

(***************************************************************************)
(* C6: the message history never holds more than H_MAX entries, whatever   *)
(* ping ticks and heavy_computation appends have run.                      *)
(***************************************************************************)
C6_HistoryBounded == Len(messageHistory) <= H_MAX

(***************************************************************************)
(* C7: an append to a history that already holds H_MAX entries or more     *)
(* leaves it with exactly H_MAX entries.                                   *)
(***************************************************************************)
C7_EvictionExact ==
    [][(AppendStep /\ Len(messageHistory) >= H_MAX)
           => Len(messageHistory') = H_MAX]_vars

(***************************************************************************)
(* C8: a disconnect of a connection that is already disconnected finds no  *)
(* session, passes no handle to clearInterval and leaves the sessions, the *)
(* message history and the broadcast registrations as they were.           *)
(***************************************************************************)
C8_SecondDisconnectIsNoOp ==
    [][\A c \in Clients :
          (Disconnected(c) /\ handleDisconnect(c))
              => /\ ~last'.found
                 /\ last'.cleared = <<>>
                 /\ UNCHANGED <<userSessions, sessionKeys, messageHistory,
                                globalEventHandlers, activeTimers,
                                socketListeners>>]_vars

(***************************************************************************)
(* C9: when every connection identity has connected and has then been      *)
(* disconnected, in whatever order, no session and no broadcast            *)
(* registration is left.                                                   *)
(***************************************************************************)
C9_AllDisconnectedLeavesNothing ==
    (\A c \in Clients : Disconnected(c))
        => /\ SessionCount = 0
           /\ Len(globalEventHandlers) = 0

(***************************************************************************)
(* C10: a connect for an identity that is already in the registry fails    *)
(* with DuplicateConnection and changes neither the existing session nor   *)
(* the timers, listeners and broadcast registrations.                      *)
(***************************************************************************)
C10_DuplicateConnectRejected ==
    [][\A c \in Clients, auth \in AuthUserIds \cup {NoAuth} :
          (HasSession(c) /\ handleConnection(c, auth))
              => /\ last'.ret.kind = "DuplicateConnection"
                 /\ UNCHANGED <<userSessions, sessionKeys, activeTimers,
                                socketListeners, globalEventHandlers>>]_vars

\* The collections the gateway tracks.
tracked == <<userSessions, sessionKeys, globalEventHandlers, messageHistory,
             globalTimer, activeTimers, socketListeners>>

Abs(x) == IF x < 0 THEN 0 - x ELSE x

(***************************************************************************)
(* C11: heavy_computation with iterations = n >= 1 on a connected session  *)
(* emits exactly n computation_result events to that connection, numbered  *)
(* 0..n-1 in order with non-decreasing timestamps, and returns             *)
(* processed = n.                                                          *)
(***************************************************************************)
C11_HeavyComputationDelivers ==
    [][\A c \in Clients, data \in HeavyInputs :
          ( /\ last'.op = "heavy_computation"
            /\ "iterations" \in DOMAIN data
            /\ data.iterations >= 1
            /\ conn[c] = "open"
            /\ HasSession(c)
            /\ handleHeavyComputation(c, data) )
              => LET n == data.iterations
                     e == last'.emits
                 IN  /\ Len(e) = n
                     /\ \A k \in 1..n :
                            /\ e[k].to = c
                            /\ e[k].event = "computation_result"
                            /\ e[k].payload.iteration = k - 1
                     /\ \A k \in 1..(n - 1) :
                            e[k].payload.timestamp <= e[k + 1].payload.timestamp
                     /\ last'.ret.kind = "processed"
                     /\ last'.ret.processed = n]_vars

\* A request for MaxIterations iterations on a connected session has been served.
C11_Witness ==
    /\ last.op = "heavy_computation"
    /\ conn[last.client] = "open"
    /\ HasSession(last.client)
    /\ last.ret.kind = "processed"
    /\ last.ret.processed = MaxIterations
    /\ Len(last.emits) = MaxIterations

(***************************************************************************)
(* C12: heavy_computation for an identity with no registered session       *)
(* returns SessionNotFound, emits no computation_result and appends        *)
(* nothing to the message history.                                         *)
(***************************************************************************)
C12_HeavyComputationNeedsSession ==
    [][\A c \in Clients, data \in HeavyInputs :
          (~HasSession(c) /\ handleHeavyComputation(c, data))
              => /\ last'.ret.kind = "SessionNotFound"
                 /\ last'.emits = <<>>
                 /\ UNCHANGED messageHistory]_vars

(***************************************************************************)
(* C13: subscribe_updates for an identity that never connected or is       *)
(* already disconnected finds no session, creates no interval and changes  *)
(* no tracked state.                                                       *)
(***************************************************************************)
C13_SubscribeNeedsLiveSession ==
    [][\A c \in Clients, u \in AuthUserIds :
          (conn[c] # "open" /\ handleSubscribeUpdates(c, u))
              => /\ ~last'.found
                 /\ last'.ret.kind = "undefined"
                 /\ UNCHANGED tracked]_vars

(***************************************************************************)
(* C14: no update of a user_updates payload carries a session object: its  *)
(* sessionData, if present at all, is not a session.                       *)
(***************************************************************************)
C14_NoSessionInUpdates ==
    \A i \in 1..Len(last.emits) :
        last.emits[i].event = "user_updates"
            => \A k \in 1..Len(last.emits[i].payload.updates) :
                   LET update == last.emits[i].payload.updates[k]
                   IN  "sessionData" \in DOMAIN update
                           => update.sessionData = NoSession

(***************************************************************************)
(* C15: get_memory_stats reports as activeSessions the number of           *)
(* connections that are connected and not yet disconnected, as             *)
(* messageHistoryLength the size of the history and as globalHandlers the  *)
(* number of broadcast registrations.                                      *)
(***************************************************************************)
C15_StatsCountLiveConnections ==
    last.op = "get_memory_stats"
        => /\ last.ret.stats.activeSessions =
                  Cardinality({c \in Clients : conn[c] = "open"})
           /\ last.ret.stats.messageHistoryLength = Len(messageHistory)
           /\ last.ret.stats.globalHandlers = Len(globalEventHandlers)

(***************************************************************************)
(* C16: a step whose outcome is that of get_memory_stats changes none of   *)
(* the collections the gateway tracks.                                     *)
(***************************************************************************)
C16_StatsReadOnly ==
    [][last'.op = "get_memory_stats" => UNCHANGED tracked]_vars

\* Statistics have been served while sessions, timers and history exist.
C16_Witness ==
    /\ last.op = "get_memory_stats"
    /\ SessionCount > 0
    /\ activeTimers # {}
    /\ messageHistory # <<>>

(***************************************************************************)
(* C17: force_gc emits one gc_result and throws nothing: without the       *)
(* runtime's hook the result carries only an error marker, with it the     *)
(* result carries before, after and freed, where freed differs from        *)
(* before - after by at most the rounding (1 MB); in both cases the        *)
(* tracked collections are unchanged.                                      *)
(***************************************************************************)
C17_ForceGcResult ==
    [][\A c \in Clients, g \in BOOLEAN, b \in MemorySamples, a \in MemorySamples :
          (last'.op = "force_gc" /\ handleForceGC(c, g, b, a))
              => /\ UNCHANGED tracked
                 /\ last'.ret.kind # "exception"
                 /\ Len(last'.emits) = 1
                 /\ last'.emits[1].to = c
                 /\ last'.emits[1].event = "gc_result"
                 /\ LET r == last'.emits[1].payload
                    IN  IF g
                        THEN /\ DOMAIN r = {"before", "after", "freed"}
                             /\ Abs(r.freed - (r.before - r.after)) <= 1
                        ELSE DOMAIN r = {"error"}]_vars

\* A reclamation has been reported in which the rounding shows.
C17_Witness ==
    /\ last.op = "force_gc"
    /\ "freed" \in DOMAIN last.emits[1].payload
    /\ last.emits[1].payload.freed
           # last.emits[1].payload.before - last.emits[1].payload.after

(***************************************************************************)
(* C18: an exception thrown by a tick of the maintenance task is caught:   *)
(* the process keeps running and the maintenance timer stays scheduled.    *)
(***************************************************************************)
C18_FailingTickIsCaught ==
    (last.op = "performHeavyOperation" /\ last.ret.kind = "exception")
        => /\ process # "crashed"
           /\ globalTimer

(***************************************************************************)
(* C19: the maintenance timer belongs to no session and is stopped at      *)
(* shutdown: once the application is closed the timer is no longer         *)
(* scheduled and no maintenance tick occurs.                               *)
(***************************************************************************)
C19_MaintenanceStopsAtShutdown ==
    process = "closed"
        => /\ ~globalTimer
           /\ last.op # "performHeavyOperation"

(***************************************************************************)
(* C20: when the MaxCalls concurrent safeIncrement calls have all          *)
(* returned, in whatever interleaving, the counter has risen by exactly    *)
(* MaxCalls and the calls have returned MaxCalls distinct consecutive      *)
(* values: no increment is lost.                                           *)
(***************************************************************************)
AllCallsDone == \A i \in Calls : calls[i].pc = "done"

C20_SafeIncrementLosesNothing ==
    AllCallsDone
        => /\ counter = MaxCalls
           /\ {calls[i].result : i \in Calls} = 1..MaxCalls

\* All the concurrent calls have returned and the counter has reached MaxCalls.
C20_Witness == AllCallsDone /\ counter = MaxCalls

(***************************************************************************)
(* C21: incrementRaceCondition loses updates under concurrency.  Every     *)
(* call returns the value it read plus one, so two calls that read the     *)
(* same value return the same value; the counter is always the value       *)
(* written by the call whose UPDATE ran last; and once all calls have      *)
(* returned, if any two of them read the same value the counter is below   *)
(* the number of calls.  The interleaving of the claim is C21_Witness: two *)
(* calls have both read 0 and both returned 1, and the counter is 1.       *)
(***************************************************************************)
RaceDone(i) == raceCalls[i].pc = "done"

RaceWritten == {i \in Calls : raceCalls[i].pc \in {"updated", "done"}}

AllRaceDone == \A i \in Calls : RaceDone(i)

C21_RaceIncrementLosesUpdates ==
    /\ \A i \in Calls : RaceDone(i) => raceCalls[i].result = raceCalls[i].current + 1
    /\ \A i, j \in Calls :
          (RaceDone(i) /\ RaceDone(j) /\ raceCalls[i].current = raceCalls[j].current)
              => raceCalls[i].result = raceCalls[j].result
    /\ RaceWritten # {} => \E i \in RaceWritten : counter = raceCalls[i].current + 1
    /\ RaceWritten = {} => counter = 0
    /\ (AllRaceDone /\ \E i, j \in Calls :
                          i # j /\ raceCalls[i].current = raceCalls[j].current)
          => counter < MaxCalls

C21_Witness ==
    \E i, j \in Calls :
        /\ i # j
        /\ RaceDone(i) /\ RaceDone(j)
        /\ \A k \in Calls \ {i, j} : raceCalls[k].pc = "idle"
        /\ raceCalls[i].current = 0 /\ raceCalls[j].current = 0
        /\ raceCalls[i].result = 1 /\ raceCalls[j].result = 1
        /\ counter = 1

(***************************************************************************)
(* C22: streamBackpressure handles backpressure.  From the write that      *)
(* returned false until the response emits 'drain' the read stream is      *)
(* paused and nothing more is written to the response; exactly one 'drain' *)
(* listener is registered for the pause, and none outside a pause; the     *)
(* 'drain' makes the stream flow again.                                    *)
(***************************************************************************)
C22_BackpressureHandled ==
    [][\A r \in Requests :
          /\ streams'[r].needDrain
                => ~streams'[r].flowing /\ streams'[r].drainHandlers = 1
          /\ ~streams'[r].needDrain => streams'[r].drainHandlers = 0
          /\ (streams[r].needDrain /\ streams'[r].needDrain)
                => streams'[r].written = streams[r].written
          /\ (streams[r].needDrain /\ ~streams'[r].needDrain
                /\ streams'[r].phase = "open")
                => streams'[r].flowing]_vars

\* A write returned false, the response drained, and the stream, flowing
\* again, wrote the next chunk, whose write returned false in its turn: the
\* stream is in its second pause, in the middle of the file.
C22_Witness ==
    \E r \in Requests :
        /\ streams[r].phase = "open"
        /\ streams[r].pauses = 2
        /\ streams[r].needDrain
        /\ streams[r].drainHandlers = 1
        /\ ~streams[r].flowing
        /\ streams[r].read < streams[r].chunks

(***************************************************************************)
(* C28: streamBackpressure writes every chunk of the file to the response  *)
(* exactly once and in file order; when every pause is followed by a       *)
(* 'drain' the response is eventually ended; it is ended once only, and by *)
(* the 'end' of the stream only after the last chunk; a response ended by  *)
(* a read error went out with status 500.                                  *)
(***************************************************************************)
InFileOrder(written) == \A k \in 1..Len(written) : written[k] = k

StreamSafe(st) ==
    /\ InFileOrder(st.written)
    /\ Len(st.written) <= st.chunks
    /\ st.ends <= 1
    /\ st.phase = "ended" => st.ends = 1 /\ Len(st.written) = st.chunks
    /\ st.phase = "errored" => st.ends = 1 /\ st.statusSent = 500

C28_StreamCompleteAndEndedOnce ==
    /\ [](\A r \in Requests : StreamSafe(streams[r]))
    /\ \A r \in Requests : (streams[r].phase = "open") ~> (streams[r].ends = 1)

(***************************************************************************)
(* C23: a subscribe_updates on a connected session returns the             *)
(* acknowledgement {status: subscribed, userId} and schedules an interval  *)
(* for the connection; while the connection stays connected that interval  *)
(* stays scheduled, every tick of it delivers a user_updates event with    *)
(* that userId and a list of updates to the connection, and such a         *)
(* delivery eventually happens.                                            *)
(***************************************************************************)
UpdateTimersOf(c) == {t \in activeTimers : t.kind = "update" /\ t.client = c}

UpdatesDelivered(out, c, userId) ==
    /\ out.op = "updateInterval"
    /\ Len(out.emits) = 1
    /\ out.emits[1].to = c
    /\ out.emits[1].event = "user_updates"
    /\ out.emits[1].payload.userId = userId
    /\ Len(out.emits[1].payload.updates) = UPDATE_COUNT

C23_SubscriptionDelivers ==
    /\ [][\A c \in Clients, u \in AuthUserIds :
             (conn[c] = "open" /\ HasSession(c) /\ handleSubscribeUpdates(c, u))
                 => /\ last'.ret = [kind |-> "subscribed", userId |-> u]
                    /\ \E t \in UpdateTimersOf(c)' :
                           t \notin activeTimers /\ t.userId = u]_vars
    /\ [][\A c \in Clients :
             (conn[c] = "open" /\ conn'[c] = "open")
                 => UpdateTimersOf(c) \subseteq UpdateTimersOf(c)']_vars
    /\ [][\A t \in activeTimers :
             (conn[t.client] = "open" /\ updateIntervalTick(t))
                 => UpdatesDelivered(last', t.client, t.userId)]_vars
    /\ \A c \in Clients :
           (conn[c] = "open" /\ UpdateTimersOf(c) # {})
               ~> (conn[c] # "open"
                   \/ \E u \in AuthUserIds : UpdatesDelivered(last, c, u))

C23_Witness ==
    \E c \in Clients :
        /\ conn[c] = "open"
        /\ UpdateTimersOf(c) # {}
        /\ UpdatesDelivered(last, c, "u1")

(***************************************************************************)
(* C24: eviction from the message history removes only the oldest entries  *)
(* and keeps the others in the order of their appends, most recent last:   *)
(* every append leaves a suffix of the previous history followed by the    *)
(* new entry, so the history is at any time exactly the most recent        *)
(* entries of the sequence of all appends (the n-th append carries the     *)
(* timestamp n - 1).                                                       *)
(***************************************************************************)
IsSuffix(t, s) ==
    /\ Len(t) <= Len(s)
    /\ \A k \in 1..Len(t) : t[k] = s[Len(s) - Len(t) + k]

MostRecentAppends(history) ==
    \A k \in 1..Len(history) :
        history[k].timestamp = clock - Len(history) + k - 1

C24_EvictionKeepsMostRecent ==
    /\ [](MostRecentAppends(messageHistory))
    /\ [][AppendStep
            => /\ messageHistory' # <<>>
               /\ IsSuffix(messageHistory',
                           Append(messageHistory,
                                  messageHistory'[Len(messageHistory')]))]_vars

\* An eviction has happened: the history holds fewer entries than were
\* appended, and more than one.
C24_Witness ==
    /\ Len(messageHistory) < clock
    /\ Len(messageHistory) > 1

(***************************************************************************)
(* C25: a connect for an identity whose connection was disconnected        *)
(* creates a fresh session: the handles recorded in it were all created by *)
(* this connect, and no interval, socket listener or broadcast             *)
(* registration made for the identity before this connect is still         *)
(* scheduled or registered.                                                *)
(***************************************************************************)
C25_ReconnectIsFresh ==
    [][\A c \in Clients, auth \in AuthUserIds \cup {NoAuth} :
          (Disconnected(c) /\ handleConnection(c, auth))
              => LET session == userSessions'[c]
                     created == nextId..(nextId' - 1)
                 IN  /\ RecordedTimers(session) \subseteq created
                     /\ \A k \in 1..Len(session.listeners) :
                            session.listeners[k].callback \in created
                     /\ \A t \in ActiveTimersOf(c)' : t.id \in created
                     /\ \A k \in 1..Len(socketListeners'[c]) :
                            socketListeners'[c][k].callback \in created
                     /\ \A k \in HandlersOf(c)' :
                            globalEventHandlers'[k].id \in created]_vars

(***************************************************************************)
(* C26: a tick of the maintenance task that runs to its end accumulates    *)
(* no state: the sessions, the message history, the broadcast              *)
(* registrations, the scheduled timers and the socket listeners are after  *)
(* it what they were before it, wherever it falls among the connection     *)
(* events.                                                                 *)
(***************************************************************************)
C26_MaintenanceTickKeepsNothing ==
    [][(last'.op = "performHeavyOperation" /\ performHeavyOperation(FALSE))
           => /\ UNCHANGED tracked
              /\ process' = process
              /\ last'.ret = [kind |-> "void", items |-> TEMP_ITEMS]]_vars

C26_Witness ==
    /\ last.op = "performHeavyOperation"
    /\ last.ret.kind = "void"
    /\ \E c \in Clients : HasSession(c) /\ conn[c] = "open"
    /\ \E c \in Clients : Disconnected(c)
    /\ messageHistory # <<>>
    /\ \E t \in activeTimers : t.kind = "update"

(***************************************************************************)
(* C27: safeIncrement releases its pooled connection exactly once on every *)
(* path, at its end; a call in which a step of the try block failed has    *)
(* rolled its transaction back, has thrown the error of that step, holds   *)
(* no lock of the row and has not changed the counter: the counter is the  *)
(* number of calls that committed.                                         *)
(***************************************************************************)
CallEnded(i) == calls[i].pc \in {"done", "failed"}

CallCommitted(i) == calls[i].pc \in {"committed", "done"}

C29_ZeroIterationsDoNothing ==
    [][\A c \in Clients :
          (last'.op = "heavy_computation"
             /\ handleHeavyComputation(c, [iterations |-> 0]))
              => /\ last'.emits = <<>>
                 /\ last'.ret = [kind |-> "processed", processed |-> 0]]_vars

(***************************************************************************)
(* C30: the operations issued on one connection are applied in the order   *)
(* they were issued, each by a handler that runs to its end in one step.   *)
(* A handler of the three operations runs only for the oldest waiting      *)
(* event of its connection; in that step the whole effect of the operation *)
(* is there (the interval and the acknowledgement of subscribe_updates,    *)
(* the events, the history entry and the result of heavy_computation, the  *)
(* cleared timer of disconnect), and nothing of another connection         *)
(* changes.                                                                *)
(***************************************************************************)
Taken(c) == Len(inbox'[c]) < Len(inbox[c])

WholeEffect(c, m) ==
    CASE m = "subscribe_updates" ->
             IF HasSession(c)
             THEN /\ last'.ret = [kind |-> "subscribed", userId |-> "u1"]
                  /\ Cardinality(UpdateTimersOf(c)') = Cardinality(UpdateTimersOf(c)) + 1
             ELSE last'.ret = [kind |-> "undefined"] /\ UNCHANGED tracked
      [] m = "heavy_computation" ->
             /\ Len(last'.emits) = 1
             /\ last'.ret = [kind |-> "processed", processed |-> 1]
             /\ Len(messageHistory') = Len(messageHistory) + 1
             /\ messageHistory'[Len(messageHistory')].timestamp = clock
      [] m = "disconnect" ->
             /\ conn'[c] = "closed"
             /\ last'.cleared = DisconnectCleared(userSessions[c])
             /\ \A h \in Range(last'.cleared) : \A t \in activeTimers' : t.id # h

C30_InOrderAndUninterrupted ==
    [][/\ \A c \in Clients :
             Taken(c)
                 => /\ inbox'[c] = Tail(inbox[c])
                    /\ last'.op = Head(inbox[c])
                    /\ last'.client = c
                    /\ WholeEffect(c, Head(inbox[c]))
                    /\ \A d \in Clients \ {c} :
                           /\ inbox'[d] = inbox[d]
                           /\ userSessions'[d] = userSessions[d]
                           /\ ActiveTimersOf(d)' = ActiveTimersOf(d)
                           /\ conn'[d] = conn[d]
       /\ (last'.op \in Messages /\ gatewayVars' # gatewayVars)
             => \E c \in Clients : Taken(c)]_vars

\* A connection issued subscribe_updates and then its disconnect; both have
\* been applied, in that order, while messages of the other connection
\* were waiting.
C30_Witness ==
    \E c \in Clients :
        /\ last.op = "disconnect"
        /\ last.client = c
        /\ conn[c] = "closed"
        /\ inbox[c] = <<>>
        /\ UpdateTimersOf(c) # {}
        /\ \E d \in Clients \ {c} : Len(inbox[d]) = MaxInbox

(***************************************************************************)
(* C31: no handle (timer, interval or listener callback) is recorded in    *)
(* the sets of two different sessions, and a handle recorded in a session  *)
(* was created for it after it was registered: whenever a handle appears   *)
(* in the sets of a session it was created in that very step, in which the *)
(* session is in the registry.                                             *)
(***************************************************************************)
ListenerCallbacks(session) ==
    {session.listeners[k].callback : k \in 1..Len(session.listeners)}

\* Every handle recorded in the session of c: none when c has no session.
HandlesOf(c) ==
    IF HasSession(c)
    THEN RecordedTimers(userSessions[c]) \cup ListenerCallbacks(userSessions[c])
    ELSE {}

C31_HandlesBelongToOneSession ==
    /\ [](\A c, d \in Clients : c # d => HandlesOf(c) \cap HandlesOf(d) = {})
    /\ [][\A c \in Clients :
             \A h \in HandlesOf(c)' \ HandlesOf(c) :
                 /\ h \in nextId..(nextId' - 1)
                 /\ HasSession(c)']_vars

\* Two sessions are registered, each with its timer and its listener.
C31_Witness ==
    \A c \in Clients :
        /\ HasSession(c)
        /\ Cardinality(HandlesOf(c)) = 2

(***************************************************************************)
(* C32: when a tick of a per-connection ping timer has completed, the      *)
(* message history holds at most HISTORY_LIMIT entries; a tick whose push  *)
(* takes the history beyond HISTORY_LIMIT leaves exactly the HISTORY_KEEP  *)
(* most recent entries, its own ping being the last; and an append of      *)
(* heavy_computation is tested against no bound: it adds its entry to the  *)
(* history whatever its length.                                            *)
(***************************************************************************)
PingTickStep == \E t \in activeTimers : connectionTimerTick(t)

HeavyAppendStep ==
    /\ AppendStep
    /\ \E c \in Clients, data \in HeavyInputs : handleHeavyComputation(c, data)

C32_OnlyPingTicksBoundHistory ==
    /\ [][PingTickStep
            => /\ Len(messageHistory') <= HISTORY_LIMIT
               /\ messageHistory'[Len(messageHistory')].timestamp = clock
               /\ IsSuffix(messageHistory',
                           Append(messageHistory,
                                  messageHistory'[Len(messageHistory')]))
               /\ Len(messageHistory) + 1 > HISTORY_LIMIT
                      => Len(messageHistory') = HISTORY_KEEP]_vars
    /\ [][HeavyAppendStep
            => /\ Len(messageHistory') = Len(messageHistory) + 1
               /\ SubSeq(messageHistory', 1, Len(messageHistory))
                      = messageHistory]_vars

\* A ping tick has just cut the history down to HISTORY_KEEP entries, and it
\* was the append number HISTORY_LIMIT + 2: no earlier append had cut the
\* history, which heavy_computation had grown beyond HISTORY_LIMIT.
C32_Witness ==
    /\ last.op = "connectionTimer"
    /\ clock = HISTORY_LIMIT + 2
    /\ Len(messageHistory) = HISTORY_KEEP

(***************************************************************************)
(* C33: the disconnect of connection a changes nothing that belongs to     *)
(* another connection b: the session entry of b with its handle sets, the  *)
(* intervals scheduled for b, the listeners on the socket of b, the        *)
(* broadcast registration of b and the connection state of b are as they   *)
(* were; and the periodic deliveries of b continue: if b is connected and  *)
(* subscribed when a disconnect of a has completed, a user_updates         *)
(* delivery to b follows (unless b itself leaves).                          *)
(***************************************************************************)
BelongsTo(b) ==
    <<userSessions[b], HandlesOf(b), ActiveTimersOf(b), socketListeners[b],
      HandlersOf(b), conn[b], lateUpdates[b]>>

C33_DisconnectLeavesOthersAlone ==
    /\ [][\A a, b \in Clients :
             (a # b /\ handleDisconnect(a)) => UNCHANGED BelongsTo(b)]_vars
    /\ \A a, b \in Clients :
           (/\ a # b
            /\ last.op = "disconnect"
            /\ last.client = a
            /\ conn[b] = "open"
            /\ UpdateTimersOf(b) # {})
               ~> (conn[b] # "open"
                   \/ \E u \in AuthUserIds : UpdatesDelivered(last, b, u))

\* A delivery to the connected b has just been made while a, which had a
\* session and whose ping timer was cancelled by its disconnect, is closed.
C33_Witness ==
    \E a, b \in Clients :
        /\ a # b
        /\ conn[a] = "closed"
        /\ HasSession(a)
        /\ ActiveTimersOf(a) = {}
        /\ conn[b] = "open"
        /\ ActiveTimersOf(b) # {}
        /\ UpdatesDelivered(last, b, "u1")

(***************************************************************************)
(* C34: the disconnect of a connection stops its ping timer: while the     *)
(* connection is disconnected (until the identity connects again) no ping  *)
(* interval of it is scheduled and no step appends a "Ping from" entry of  *)
(* it to the message history.                                              *)
(***************************************************************************)
PingTimersOf(c) == {t \in ActiveTimersOf(c) : t.kind = "connection"}

PingAppended(c) ==
    /\ AppendStep
    /\ messageHistory' # <<>>
    /\ messageHistory'[Len(messageHistory')].message = "Ping from " \o c

C34_NoPingAfterDisconnect ==
    /\ [](\A c \in Clients : Disconnected(c) => PingTimersOf(c) = {})
    /\ [][\A c \in Clients :
             (PingTimersOf(c) # {} /\ handleDisconnect(c))
                 => /\ Disconnected(c)'
                    /\ last'.cleared # <<>>]_vars
    /\ [][\A c \in Clients : Disconnected(c) => ~PingAppended(c)]_vars

\* A connection that had pinged is disconnected, its ping still the last
\* entry of the history, while the ping timer of another is still scheduled.
C34_Witness ==
    \E c, d \in Clients :
        /\ Disconnected(c)
        /\ last.op = "disconnect"
        /\ last.cleared # <<>>
        /\ messageHistory # <<>>
        /\ messageHistory[Len(messageHistory)].message = "Ping from " \o c
        /\ PingTimersOf(d) # {}

(***************************************************************************)
(* C35: initCounter is idempotent and non-destructive.  Whichever service  *)
(* runs it, in whatever interleaving with the other, with increments and   *)
(* with restarts: the table is never dropped and holds no row but id 1; a  *)
(* step of initCounter that finds the row leaves the table and the value   *)
(* as they are; a step that creates the row gives it the value 0; and      *)
(* when the initCounter calls of both services have completed the table    *)
(* holds exactly the row id 1.                                             *)
(***************************************************************************)
InitCounterStep == \E s \in Services : initCounter(s)

InitCompleted == \A s \in Services : initCalls[s] = "done"

C35_InitCounterIdempotent ==
    /\ [](counterTable.ids \subseteq {1})
    /\ [](counterTable.ids # {} => counterTable.exists)
    /\ [](InitCompleted => counterTable = Initialised)
    /\ [][counterTable.exists => counterTable'.exists]_vars
    /\ [][InitCounterStep
            => /\ RowExists => UNCHANGED <<counter, counterTable>>
               /\ (~RowExists /\ RowExists') => counter' = 0
               /\ counterTable.ids \subseteq counterTable'.ids]_vars

\* After a restart both services have run initCounter again, to completion,
\* on a counter that increments had raised.
C35_Witness ==
    /\ boots > 0
    /\ InitCompleted
    /\ counter > 0

(***************************************************************************)
(* C36: no increment reads the counter before counter initialisation has   *)
(* completed: whenever incrementRaceCondition or safeIncrement runs its    *)
(* SELECT, the initCounter call of its service has completed and the row   *)
(* id = 1 exists.                                                          *)
(***************************************************************************)
C36_IncrementReadsAfterInit ==
    [][\A i \in Calls :
          /\ raceSelect(i) => (initCalls["AppService"] = "done" /\ RowExists)
          /\ safeSelectForUpdate(i)
                 => (initCalls["InternalService"] = "done" /\ RowExists)]_vars

=============================================================================
